---- MODULE Spec2Model ----
(***************************************************************************)
(* A model of src/Main.py: static Huffman coding of a text into a          *)
(* container file (length-prefixed serialized tree + packed payload) and   *)
(* back.  Strings of '0'/'1' characters are sequences over {0, 1}; bytes   *)
(* objects are sequences over 0..255; a text is a sequence of character    *)
(* codes (ord).  A dict is kept as the sequence of its items in insertion  *)
(* order where the code iterates over it (frequency), and as a function     *)
(* where the code only looks keys up (codebook).                           *)
(***************************************************************************)
EXTENDS Integers, Sequences, FiniteSets, TLC

----------------------------------------------------------------------------
(* Bounds of the model. *)

\* longest input text drawn for encode_file
MaxLen == 5

\* longest texts encoded in pairs
MaxPairLen == 4

\* longest bit string handed to decode
MaxBits == 6

\* longest container file handed to load_encoded_file
MaxFileLen == 6

\* longest bit string handed to bit_string_to_bytes
MaxPackLen == 16

\* longest arbitrary bit string handed (packed) to deserialize_tree_iterative
MaxTreeBits == 12

----------------------------------------------------------------------------
(* Values. *)

\* Python's None where a Node is expected (Node.left / Node.right / a tree)
None == [none |-> TRUE]

\* Python's None as Node.char (internal nodes)
NoChar == -1

\* characters the bounded input texts are drawn from: 'a', 'b', 'c', 'd'
Alphabet == {97, 98, 99, 100}

\* characters the trees handed to the tree codec are built over: the ends
\* of the single-byte range, 'a' and 'b'
TreeAlphabet == {0, 97, 98, 255}

\* byte values the container files are drawn from; all below 128, so that
\* the 32-bit length stays within the model checker's integers
ByteSample == {0, 1, 2, 127}

\* no file at the output path
NoFile == <<-1>>

\* nothing written by decode_file
NoOutput == <<-1>>

\* the concrete scenario of the specification: "abracadabra"
Abracadabra == <<97, 98, 114, 97, 99, 97, 100, 97, 98, 114, 97>>

\* Node(freq, char=None, left=None, right=None)
Node(freq, char, left, right) ==
    [freq |-> freq, char |-> char, left |-> left, right |-> right]

\* Node.__lt__: nodes are ordered by freq alone
Lt(self, other) == self.freq < other.freq

----------------------------------------------------------------------------
(* heapq, as called by build_huffman_tree.  Positions are 0-based as in    *)
(* the library; heap[pos + 1] is the list's element at pos.                *)

RECURSIVE siftdown_loop(_, _, _, _)
siftdown_loop(heap, startpos, pos, newitem) ==
    IF pos > startpos
    THEN LET parentpos == (pos - 1) \div 2
             parent == heap[parentpos + 1]
         IN  IF Lt(newitem, parent)
             THEN siftdown_loop([heap EXCEPT ![pos + 1] = parent],
                                startpos, parentpos, newitem)
             ELSE [heap EXCEPT ![pos + 1] = newitem]
    ELSE [heap EXCEPT ![pos + 1] = newitem]

siftdown(heap, startpos, pos) ==
    siftdown_loop(heap, startpos, pos, heap[pos + 1])

heappush(heap, item) == siftdown(Append(heap, item), 0, Len(heap))

RECURSIVE siftup_loop(_, _, _, _)
siftup_loop(heap, pos, childpos, endpos) ==
    IF childpos < endpos
    THEN LET rightpos == childpos + 1
             c == IF rightpos < endpos
                     /\ ~Lt(heap[childpos + 1], heap[rightpos + 1])
                  THEN rightpos ELSE childpos
         IN  siftup_loop([heap EXCEPT ![pos + 1] = heap[c + 1]],
                         c, 2 * c + 1, endpos)
    ELSE [heap |-> heap, pos |-> pos]

siftup(heap, pos) ==
    LET newitem == heap[pos + 1]
        r == siftup_loop(heap, pos, 2 * pos + 1, Len(heap))
    IN  siftdown([r.heap EXCEPT ![r.pos + 1] = newitem], pos, r.pos)

\* heappop(heap): the item returned and the list left behind
heappop(heap) ==
    LET lastelt == heap[Len(heap)]
        h == SubSeq(heap, 1, Len(heap) - 1)
    IN  IF h # <<>>
        THEN [item |-> h[1], heap |-> siftup([h EXCEPT ![1] = lastelt], 0)]
        ELSE [item |-> lastelt, heap |-> h]

----------------------------------------------------------------------------
(* HuffmanModel. *)

\* position of char among the keys of the dict d, 0 when it is no key
KeyIndex(d, char) ==
    IF \E i \in 1..Len(d) : d[i][1] = char
    THEN CHOOSE i \in 1..Len(d) : d[i][1] = char
    ELSE 0

\* d without its item at position i
RemoveAt(d, i) == SubSeq(d, 1, i - 1) \o SubSeq(d, i + 1, Len(d))

\* the mutant of Increment: a key counted again moves to the end, as in a
\* table kept in order of last occurrence
IncrementMoveToEnd(d, char) ==
    LET i == KeyIndex(d, char)
    IN  IF i = 0 THEN Append(d, <<char, 1>>)
        ELSE Append(RemoveAt(d, i), <<char, d[i][2] + 1>>)

\* frequency[char] += 1 on a defaultdict(int): a new key goes last
Increment(d, char) ==
    LET i == KeyIndex(d, char)
    IN  IF i = 0 THEN Append(d, <<char, 1>>)
        ELSE [d EXCEPT ![i] = <<char, d[i][2] + 1>>]

RECURSIVE build_frequency_table_loop(_, _)
build_frequency_table_loop(t, frequency) ==
    IF t = <<>> THEN frequency
    ELSE build_frequency_table_loop(Tail(t), Increment(frequency, Head(t)))

build_frequency_table(t) == build_frequency_table_loop(t, <<>>)

\* one pass of "for char, freq in frequency.items(): heappush(...)"
PushLeaf(heap, item) == heappush(heap, Node(item[2], item[1], None, None))

\* the mutant of MergeStep: the second node popped is not made a child
MergeStepOneChild(heap) ==
    LET p1 == heappop(heap)
        p2 == heappop(p1.heap)
        merged == Node(p1.item.freq + p2.item.freq, NoChar, p1.item, None)
    IN  heappush(p2.heap, merged)

\* one pass of "while len(heap) > 1"
MergeStep(heap) ==
    LET p1 == heappop(heap)
        p2 == heappop(p1.heap)
        merged == Node(p1.item.freq + p2.item.freq, NoChar, p1.item, p2.item)
    IN  heappush(p2.heap, merged)

RECURSIVE push_all(_, _)
push_all(frequency, heap) ==
    IF frequency = <<>> THEN heap
    ELSE push_all(Tail(frequency), PushLeaf(heap, Head(frequency)))

RECURSIVE merge_all(_)
merge_all(heap) == IF Len(heap) > 1 THEN merge_all(MergeStep(heap)) ELSE heap

build_huffman_tree(frequency) ==
    LET heap == push_all(frequency, <<>>)
    IN  IF Len(heap) = 0 THEN None ELSE merge_all(heap)[1]

\* codebook[char] = code
SetItem(codebook, char, code) ==
    [c \in DOMAIN codebook \cup {char} |->
        IF c = char THEN code ELSE codebook[c]]

\* the mutant of OrZero: the prefix as it is, empty for a lone leaf
OrZeroForgotten(prefix) == prefix

\* prefix or "0"
OrZero(prefix) == IF prefix = <<>> THEN <<0>> ELSE prefix

\* the mutant of build_codes_loop: the right edge appends no digit
RECURSIVE build_codes_loop_noright(_, _)
build_codes_loop_noright(stack, codebook) ==
    IF stack = <<>> THEN codebook
    ELSE LET node == stack[Len(stack)][1]
             prefix == stack[Len(stack)][2]
             rest == SubSeq(stack, 1, Len(stack) - 1)
         IN  IF node.char # NoChar
             THEN build_codes_loop_noright(rest, SetItem(codebook, node.char, OrZero(prefix)))
             ELSE LET s1 == IF node.right # None
                            THEN Append(rest, <<node.right, prefix>>)
                            ELSE rest
                      s2 == IF node.left # None
                            THEN Append(s1, <<node.left, prefix \o <<0>>>>)
                            ELSE s1
                  IN  build_codes_loop_noright(s2, codebook)

\* "while stack": stack holds <<node, prefix>> pairs, its top is its last
RECURSIVE build_codes_loop(_, _)
build_codes_loop(stack, codebook) ==
    IF stack = <<>> THEN codebook
    ELSE LET node == stack[Len(stack)][1]
             prefix == stack[Len(stack)][2]
             rest == SubSeq(stack, 1, Len(stack) - 1)
         IN  IF node.char # NoChar
             THEN build_codes_loop(rest, SetItem(codebook, node.char, OrZero(prefix)))
             ELSE LET s1 == IF node.right # None
                            THEN Append(rest, <<node.right, prefix \o <<1>>>>)
                            ELSE rest
                      s2 == IF node.left # None
                            THEN Append(s1, <<node.left, prefix \o <<0>>>>)
                            ELSE s1
                  IN  build_codes_loop(s2, codebook)

build_codes_iterative(root) ==
    IF root = None THEN <<>> ELSE build_codes_loop(<<<<root, <<>>>>>>, <<>>)

RECURSIVE encode(_, _)
encode(t, codebook) ==
    IF t = <<>> THEN <<>> ELSE codebook[Head(t)] \o encode(Tail(t), codebook)

----------------------------------------------------------------------------
(* BitPacker. *)

\* '0' * n
RECURSIVE Zeros(_)
Zeros(n) == IF n <= 0 THEN <<>> ELSE <<0>> \o Zeros(n - 1)

\* int(s, 2) for a string s of binary digits
RECURSIVE IntOfBits(_)
IntOfBits(s) ==
    IF s = <<>> THEN 0
    ELSE 2 * IntOfBits(SubSeq(s, 1, Len(s) - 1)) + s[Len(s)]

\* the binary digits of n >= 0, shortest form
RECURSIVE Bin(_)
Bin(n) == IF n < 2 THEN <<n>> ELSE Bin(n \div 2) \o <<n % 2>>

\* format(n, '08b'): zero-filled on the left to a width of at least 8
Format08b(n) == Zeros(8 - Len(Bin(n))) \o Bin(n)

\* "for i in range(0, len(s), 8): byte_array.append(int(s[i:i+8], 2))"
RECURSIVE GroupBytes(_)
GroupBytes(s) ==
    IF s = <<>> THEN <<>>
    ELSE LET n == IF Len(s) < 8 THEN Len(s) ELSE 8
         IN  <<IntOfBits(SubSeq(s, 1, n))>> \o GroupBytes(SubSeq(s, n + 1, Len(s)))

bit_string_to_bytes(s) ==
    LET padding == (8 - (Len(s) % 8)) % 8
    IN  <<padding>> \o GroupBytes(s \o Zeros(padding))

\* ''.join(f'{byte:08b}' for byte in b)
RECURSIVE JoinBits(_)
JoinBits(b) == IF b = <<>> THEN <<>> ELSE Format08b(Head(b)) \o JoinBits(Tail(b))

\* s[:-n] for n > 0
DropLast(s, n) == SubSeq(s, 1, Len(s) - n)

\* b[0] raises IndexError on empty bytes
bytes_to_bit_string_raises(b) == b = <<>>

\* the mutant of bytes_to_bit_string: the padding count is ignored
bytes_to_bit_string_nostrip(b) == JoinBits(Tail(b))

bytes_to_bit_string(b) ==
    LET padding == b[1]
        bit_string == JoinBits(Tail(b))
    IN  IF padding > 0 THEN DropLast(bit_string, padding) ELSE bit_string

----------------------------------------------------------------------------
(* TreeCodec. *)

\* "while stack" of serialize_tree_iterative: the stack's top is its last
RECURSIVE serialize_loop(_, _)
serialize_loop(stack, bits) ==
    IF stack = <<>> THEN bits
    ELSE LET n == stack[Len(stack)]
             rest == SubSeq(stack, 1, Len(stack) - 1)
         IN  IF n.char # NoChar
             THEN serialize_loop(rest, bits \o <<1>> \o Format08b(n.char))
             ELSE LET s1 == IF n.right # None THEN Append(rest, n.right) ELSE rest
                      s2 == IF n.left # None THEN Append(s1, n.left) ELSE s1
                  IN  serialize_loop(s2, bits \o <<0>>)

\* the bit string joined at the end of serialize_tree_iterative
serialize_bit_string(root) == serialize_loop(<<root>>, <<>>)

serialize_tree_iterative(root) == bit_string_to_bytes(serialize_bit_string(root))

(* deserialize_tree_iterative builds the tree by assigning to the fields of *)
(* nodes it holds on a stack, so the nodes are kept in a store: nodes[k]   *)
(* is the k-th Node constructed, a left or right of 0 is None, and stack   *)
(* and root hold positions in the store.                                   *)

\* the mutant of Attach: a completed parent stays on the stack
AttachNoPop(st, k) ==
    IF st.stack = <<>> THEN [st EXCEPT !.root = k]
    ELSE LET parent == st.stack[Len(st.stack)]
         IN  IF st.nodes[parent].left = 0
             THEN [st EXCEPT !.nodes[parent].left = k]
             ELSE IF st.nodes[parent].right = 0
             THEN [st EXCEPT !.nodes[parent].right = k]
             ELSE st

\* "parent = stack[-1]; if parent.left is None ... elif parent.right is None"
Attach(st, k) ==
    IF st.stack = <<>> THEN [st EXCEPT !.root = k]
    ELSE LET parent == st.stack[Len(st.stack)]
         IN  IF st.nodes[parent].left = 0
             THEN [st EXCEPT !.nodes[parent].left = k]
             ELSE IF st.nodes[parent].right = 0
             THEN [st EXCEPT !.nodes[parent].right = k,
                             !.stack = SubSeq(st.stack, 1, Len(st.stack) - 1)]
             ELSE st

\* Node(0, char) added to the store
NewNode(st, char) ==
    [st EXCEPT !.nodes = Append(st.nodes, [char |-> char, left |-> 0, right |-> 0])]

(* "while True" of deserialize_tree_iterative, over the bits left in the   *)
(* iterator.  next(it) on the exhausted iterator raises StopIteration: at  *)
(* "bit = next(it)" the handler catches it and the loop ends; inside the   *)
(* generator expression of the 8 symbol bits it becomes a RuntimeError     *)
(* (PEP 479), which the handler does not catch.                            *)
RECURSIVE deserialize_loop(_, _)
deserialize_loop(it, st) ==
    IF it = <<>> THEN st
    ELSE IF Head(it) = 1
    THEN IF Len(it) < 9 THEN [st EXCEPT !.exc = "RuntimeError"]
         ELSE LET s1 == NewNode(st, IntOfBits(SubSeq(it, 2, 9)))
              IN  deserialize_loop(SubSeq(it, 10, Len(it)), Attach(s1, Len(s1.nodes)))
    ELSE LET s1 == NewNode(st, NoChar)
             s2 == Attach(s1, Len(s1.nodes))
         IN  deserialize_loop(Tail(it), [s2 EXCEPT !.stack = Append(s2.stack, Len(s1.nodes))])

\* the Node object at position k of the store, with all it refers to
RECURSIVE ToTree(_, _)
ToTree(nodes, k) ==
    IF k = 0 THEN None
    ELSE Node(0, nodes[k].char, ToTree(nodes, nodes[k].left), ToTree(nodes, nodes[k].right))

\* the state of deserialize_tree_iterative when it returns or raises
deserialize_run(bit_bytes) ==
    deserialize_loop(bytes_to_bit_string(bit_bytes),
                     [nodes |-> <<>>, stack |-> <<>>, root |-> 0, exc |-> ""])

\* the mutant of deserialize_tree_raises: the handler catches the error of
\* a stream that ends inside a symbol too
deserialize_tree_raises_caught(bit_bytes) ==
    IF bytes_to_bit_string_raises(bit_bytes) THEN "IndexError" ELSE ""

\* the exception deserialize_tree_iterative raises, "" when it returns
deserialize_tree_raises(bit_bytes) ==
    IF bytes_to_bit_string_raises(bit_bytes) THEN "IndexError"
    ELSE deserialize_run(bit_bytes).exc

deserialize_tree_iterative(bit_bytes) ==
    LET st == deserialize_run(bit_bytes) IN ToTree(st.nodes, st.root)

----------------------------------------------------------------------------
(* ContainerFormat. *)

\* struct.pack('>I', n)
PackUInt32(n) ==
    <<(n \div 16777216) % 256, (n \div 65536) % 256, (n \div 256) % 256, n % 256>>

\* struct.unpack('>I', b)[0]
UnpackUInt32(b) == b[1] * 16777216 + b[2] * 65536 + b[3] * 256 + b[4]

\* f.read(n): at most n bytes of what is left
Read(b, n) == SubSeq(b, 1, IF n < Len(b) THEN n ELSE Len(b))

\* what is left of b after f.read(n)
AfterRead(b, n) == SubSeq(b, (IF n < Len(b) THEN n ELSE Len(b)) + 1, Len(b))

\* the bytes save_encoded_file writes
save_encoded_file(encoded_bits, tree_bits) ==
    PackUInt32(Len(tree_bits)) \o tree_bits \o encoded_bits

\* load_encoded_file raises ValueError on a header of fewer than 4 bytes
load_encoded_file_raises(f) == Len(Read(f, 4)) < 4

load_encoded_file(f) ==
    LET tree_length == UnpackUInt32(Read(f, 4))
        body == AfterRead(f, 4)
    IN  [tree_bits |-> Read(body, tree_length),
         encoded_bits |-> AfterRead(body, tree_length)]

----------------------------------------------------------------------------
(* Inputs. *)

\* the strings over S of length at most n
StringsOver(S, n) == UNION {[1..k -> S] : k \in 0..n}

\* the input texts: all short ones, and the concrete scenario
Texts == StringsOver(Alphabet, MaxLen) \cup {Abracadabra}

\* the code table encode_file derives for the text t
CodeTable(t) == build_codes_iterative(build_huffman_tree(build_frequency_table(t)))

\* the trees build_huffman_tree returns for the non-empty texts over S
BuiltTrees(S) ==
    {build_huffman_tree(build_frequency_table(t)) : t \in StringsOver(S, MaxLen) \ {<<>>}}

\* a serialized tree cut short, as a truncated or damaged file holds it
Prefixes(s) == {SubSeq(s, 1, k) : k \in 0..Len(s)}

\* the tree blocks handed to deserialize_tree_iterative on their own
TreeStreams ==
    {bit_string_to_bytes(s) :
        s \in StringsOver({0, 1}, MaxTreeBits)
              \cup UNION {Prefixes(serialize_bit_string(t)) : t \in BuiltTrees(TreeAlphabet)}}

----------------------------------------------------------------------------
(* State. *)

VARIABLES
    pc,                  \* the statement the program is at
    text,                \* encode_file: the text read from the input file
    other,               \* a second text, encoded independently of the first
    frequency,           \* build_huffman_tree: the frequency table
    pushed,              \* build_huffman_tree: items of frequency pushed so far
    heap,                \* build_huffman_tree: the heap
    tree,                \* encode_file: the tree
    codebook,            \* encode_file: the code table
    other_codebook,      \* the code table of the second text
    encoded_bit_string,  \* the payload as a string of '0'/'1'
    encoded_bits,        \* the payload as bytes
    tree_bits,           \* the serialized tree as bytes
    file,                \* the bytes of the container file
    dtree,               \* decode_file: the tree (root, in decode)
    node,                \* decode: the node the walk is at
    pos,                 \* decode: bits consumed so far
    decoded,             \* decode: the characters emitted so far
    output,              \* what the last operation returned or wrote
    exc                  \* the exception that ended the run, "" when none did

vars == <<pc, text, other, frequency, pushed, heap, tree, codebook, other_codebook,
          encoded_bit_string, encoded_bits, tree_bits, file, dtree, node, pos,
          decoded, output, exc>>

----------------------------------------------------------------------------
(* encode_file. *)

\* encode_file reads the text and calls build_frequency_table, then
\* build_huffman_tree starts with an empty heap
ReadAndCount ==
    /\ pc = "encode_file"
    /\ frequency' = build_frequency_table(text)
    /\ heap' = <<>>
    /\ pushed' = 0
    /\ pc' = "push"
    /\ UNCHANGED <<text, other, tree, codebook, other_codebook, encoded_bit_string,
                   encoded_bits, tree_bits, file, dtree, node, pos, decoded, output, exc>>

\* build_huffman_tree: one pass of the for loop
PushNext ==
    /\ pc = "push"
    /\ pushed < Len(frequency)
    /\ heap' = PushLeaf(heap, frequency[pushed + 1])
    /\ pushed' = pushed + 1
    /\ UNCHANGED <<pc, text, other, frequency, tree, codebook, other_codebook,
                   encoded_bit_string, encoded_bits, tree_bits, file, dtree, node,
                   pos, decoded, output, exc>>

\* build_huffman_tree: the for loop is over; "if len(heap) == 0: return None"
PushDone ==
    /\ pc = "push"
    /\ pushed = Len(frequency)
    /\ IF Len(heap) = 0
       THEN tree' = None /\ pc' = "tree_built"
       ELSE tree' = tree /\ pc' = "merge"
    /\ UNCHANGED <<text, other, frequency, pushed, heap, codebook, other_codebook,
                   encoded_bit_string, encoded_bits, tree_bits, file, dtree, node,
                   pos, decoded, output, exc>>

\* build_huffman_tree: one pass of the while loop
Merge ==
    /\ pc = "merge"
    /\ Len(heap) > 1
    /\ heap' = MergeStep(heap)
    /\ UNCHANGED <<pc, text, other, frequency, pushed, tree, codebook, other_codebook,
                   encoded_bit_string, encoded_bits, tree_bits, file, dtree, node,
                   pos, decoded, output, exc>>

\* build_huffman_tree: "return heap[0]"
MergeDone ==
    /\ pc = "merge"
    /\ Len(heap) <= 1
    /\ tree' = heap[1]
    /\ pc' = "tree_built"
    /\ UNCHANGED <<text, other, frequency, pushed, heap, codebook, other_codebook,
                   encoded_bit_string, encoded_bits, tree_bits, file, dtree, node,
                   pos, decoded, output, exc>>

\* encode_file: "if tree is None: print(...); return": no file is written
EncodeEmpty ==
    /\ pc = "tree_built"
    /\ tree = None
    /\ pc' = "encoded"
    /\ UNCHANGED <<text, other, frequency, pushed, heap, tree, codebook, other_codebook,
                   encoded_bit_string, encoded_bits, tree_bits, file, dtree, node,
                   pos, decoded, output, exc>>

\* encode_file: build_codes_iterative(tree)
BuildCodes ==
    /\ pc = "tree_built"
    /\ tree # None
    /\ codebook' = build_codes_iterative(tree)
    /\ pc' = "codes_built"
    /\ UNCHANGED <<text, other, frequency, pushed, heap, tree, other_codebook,
                   encoded_bit_string, encoded_bits, tree_bits, file, dtree, node,
                   pos, decoded, output, exc>>

\* encode_file: encode(text, codebook) and bit_string_to_bytes of the result
EncodeText ==
    /\ pc = "codes_built"
    /\ encoded_bit_string' = encode(text, codebook)
    /\ encoded_bits' = bit_string_to_bytes(encoded_bit_string')
    /\ pc' = "text_encoded"
    /\ UNCHANGED <<text, other, frequency, pushed, heap, tree, codebook, other_codebook,
                   tree_bits, file, dtree, node, pos, decoded, output, exc>>

\* encode_file: serialize_tree_iterative(tree) and save_encoded_file
SerializeAndSave ==
    /\ pc = "text_encoded"
    /\ tree_bits' = serialize_tree_iterative(tree)
    /\ file' = save_encoded_file(encoded_bits, tree_bits')
    /\ pc' = "encoded"
    /\ UNCHANGED <<text, other, frequency, pushed, heap, tree, codebook, other_codebook,
                   encoded_bit_string, encoded_bits, dtree, node, pos, decoded,
                   output, exc>>

----------------------------------------------------------------------------
(* decode_file. *)

\* decode_file is run on the file encode_file left at the output path
StartDecode ==
    /\ pc = "encoded"
    /\ pc' = "load"
    /\ UNCHANGED <<text, other, frequency, pushed, heap, tree, codebook, other_codebook,
                   encoded_bit_string, encoded_bits, tree_bits, file, dtree, node,
                   pos, decoded, output, exc>>

\* load_encoded_file: open() raises when there is no file, a short header
\* raises ValueError, and otherwise two reads split what follows the header
Load ==
    /\ pc = "load"
    /\ IF file = NoFile
       THEN exc' = "FileNotFoundError" /\ pc' = "failed"
            /\ UNCHANGED <<tree_bits, encoded_bits>>
       ELSE IF load_encoded_file_raises(file)
       THEN exc' = "ValueError" /\ pc' = "failed"
            /\ UNCHANGED <<tree_bits, encoded_bits>>
       ELSE /\ tree_bits' = load_encoded_file(file).tree_bits
            /\ encoded_bits' = load_encoded_file(file).encoded_bits
            /\ pc' = "deserialize"
            /\ exc' = exc
    /\ UNCHANGED <<text, other, frequency, pushed, heap, tree, codebook, other_codebook,
                   encoded_bit_string, file, dtree, node, pos, decoded, output>>

\* decode_file: deserialize_tree_iterative(tree_bits), then
\* "if tree is None: print(...); return"
Deserialize ==
    /\ pc = "deserialize"
    /\ IF deserialize_tree_raises(tree_bits) # ""
       THEN exc' = deserialize_tree_raises(tree_bits) /\ pc' = "failed"
            /\ dtree' = dtree
       ELSE /\ dtree' = deserialize_tree_iterative(tree_bits)
            /\ pc' = IF dtree' = None THEN "decode_returned" ELSE "unpack"
            /\ exc' = exc
    /\ UNCHANGED <<text, other, frequency, pushed, heap, tree, codebook, other_codebook,
                   encoded_bit_string, encoded_bits, tree_bits, file, node, pos,
                   decoded, output>>

\* decode_file: bytes_to_bit_string(encoded_bits); decode starts at the root
Unpack ==
    /\ pc = "unpack"
    /\ IF bytes_to_bit_string_raises(encoded_bits)
       THEN exc' = "IndexError" /\ pc' = "failed"
            /\ UNCHANGED <<encoded_bit_string, node, pos, decoded>>
       ELSE /\ encoded_bit_string' = bytes_to_bit_string(encoded_bits)
            /\ node' = dtree
            /\ pos' = 0
            /\ decoded' = <<>>
            /\ pc' = "decode"
            /\ exc' = exc
    /\ UNCHANGED <<text, other, frequency, pushed, heap, tree, codebook, other_codebook,
                   encoded_bits, tree_bits, file, dtree, output>>

\* decode: one pass of "for bit in encoded_bits"; node.char on None raises
DecodeStep ==
    /\ pc = "decode"
    /\ pos < Len(encoded_bit_string)
    /\ LET bit == encoded_bit_string[pos + 1]
           n == IF bit = 0 THEN node.left ELSE node.right
       IN  IF n = None
           THEN exc' = "AttributeError" /\ pc' = "failed"
                /\ UNCHANGED <<node, pos, decoded>>
           ELSE /\ IF n.char # NoChar
                   THEN decoded' = Append(decoded, n.char) /\ node' = dtree
                   ELSE decoded' = decoded /\ node' = n
                /\ pos' = pos + 1
                /\ UNCHANGED <<pc, exc>>
    /\ UNCHANGED <<text, other, frequency, pushed, heap, tree, codebook, other_codebook,
                   encoded_bit_string, encoded_bits, tree_bits, file, dtree, output>>

\* decode: the bits are exhausted, "return ''.join(decoded)"; decode_file
\* writes the result
DecodeReturn ==
    /\ pc = "decode"
    /\ pos = Len(encoded_bit_string)
    /\ output' = decoded
    /\ pc' = "decoded"
    /\ UNCHANGED <<text, other, frequency, pushed, heap, tree, codebook, other_codebook,
                   encoded_bit_string, encoded_bits, tree_bits, file, dtree, node,
                   pos, decoded, exc>>

----------------------------------------------------------------------------
(* The driver: encode_file on a text, then decode_file on what it wrote. *)

Init ==
    /\ pc = "encode_file"
    /\ text \in Texts
    /\ other = <<>> /\ frequency = <<>> /\ pushed = 0 /\ heap = <<>>
    /\ tree = None /\ codebook = <<>> /\ other_codebook = <<>>
    /\ encoded_bit_string = <<>> /\ encoded_bits = <<>> /\ tree_bits = <<>>
    /\ file = NoFile /\ dtree = None /\ node = None /\ pos = 0
    /\ decoded = <<>> /\ output = NoOutput /\ exc = ""

Next ==
    \/ ReadAndCount \/ PushNext \/ PushDone \/ Merge \/ MergeDone
    \/ EncodeEmpty \/ BuildCodes \/ EncodeText \/ SerializeAndSave
    \/ StartDecode \/ Load \/ Deserialize \/ Unpack \/ DecodeStep \/ DecodeReturn

Spec == Init /\ [][Next]_vars

----------------------------------------------------------------------------
(* The model stage of encode_file on two texts with the same symbol counts. *)

\* occurrences of char c in t
Count(t, c) == Cardinality({i \in 1..Len(t) : t[i] = c})

\* the characters of t
Chars(t) == {t[i] : i \in 1..Len(t)}

\* t and u hold every character equally often
SameCounts(t, u) ==
    /\ Chars(t) = Chars(u)
    /\ \A c \in Chars(t) : Count(t, c) = Count(u, c)

InitPair ==
    /\ pc = "encode_pair"
    /\ text \in StringsOver(Alphabet, MaxPairLen)
    /\ other \in {u \in StringsOver(Alphabet, MaxPairLen) : SameCounts(text, u)}
    /\ frequency = <<>> /\ pushed = 0 /\ heap = <<>>
    /\ tree = None /\ codebook = <<>> /\ other_codebook = <<>>
    /\ encoded_bit_string = <<>> /\ encoded_bits = <<>> /\ tree_bits = <<>>
    /\ file = NoFile /\ dtree = None /\ node = None /\ pos = 0
    /\ decoded = <<>> /\ output = NoOutput /\ exc = ""

\* encode_file's frequency table, tree and code table, for each text
EncodePair ==
    /\ pc = "encode_pair"
    /\ codebook' = CodeTable(text)
    /\ other_codebook' = CodeTable(other)
    /\ pc' = "pair_encoded"
    /\ UNCHANGED <<text, other, frequency, pushed, heap, tree, encoded_bit_string,
                   encoded_bits, tree_bits, file, dtree, node, pos, decoded,
                   output, exc>>

SpecPair == InitPair /\ [][EncodePair]_vars

----------------------------------------------------------------------------
(* decode on any bit string, against a tree build_huffman_tree returned. *)

InitDecode ==
    /\ pc = "decode"
    /\ dtree \in BuiltTrees(Alphabet)
    /\ encoded_bit_string \in StringsOver({0, 1}, MaxBits)
    /\ node = dtree /\ pos = 0 /\ decoded = <<>>
    /\ text = <<>> /\ other = <<>> /\ frequency = <<>> /\ pushed = 0 /\ heap = <<>>
    /\ tree = None /\ codebook = <<>> /\ other_codebook = <<>>
    /\ encoded_bits = <<>> /\ tree_bits = <<>> /\ file = NoFile
    /\ output = NoOutput /\ exc = ""

NextDecode == DecodeStep \/ DecodeReturn

SpecDecode == InitDecode /\ [][NextDecode]_vars

----------------------------------------------------------------------------
(* load_encoded_file on any container file. *)

InitLoad ==
    /\ pc = "load"
    /\ file \in StringsOver(ByteSample, MaxFileLen)
    /\ text = <<>> /\ other = <<>> /\ frequency = <<>> /\ pushed = 0 /\ heap = <<>>
    /\ tree = None /\ codebook = <<>> /\ other_codebook = <<>>
    /\ encoded_bit_string = <<>> /\ encoded_bits = <<>> /\ tree_bits = <<>>
    /\ dtree = None /\ node = None /\ pos = 0
    /\ decoded = <<>> /\ output = NoOutput /\ exc = ""

SpecLoad == InitLoad /\ [][Load]_vars

----------------------------------------------------------------------------
(* The bit packer on any bit string. *)

InitBitPacker ==
    /\ pc = "pack"
    /\ encoded_bit_string \in StringsOver({0, 1}, MaxPackLen)
    /\ text = <<>> /\ other = <<>> /\ frequency = <<>> /\ pushed = 0 /\ heap = <<>>
    /\ tree = None /\ codebook = <<>> /\ other_codebook = <<>>
    /\ encoded_bits = <<>> /\ tree_bits = <<>> /\ file = NoFile
    /\ dtree = None /\ node = None /\ pos = 0
    /\ decoded = <<>> /\ output = NoOutput /\ exc = ""

\* bit_string_to_bytes(encoded_bit_string)
PackBits ==
    /\ pc = "pack"
    /\ encoded_bits' = bit_string_to_bytes(encoded_bit_string)
    /\ pc' = "packed"
    /\ UNCHANGED <<text, other, frequency, pushed, heap, tree, codebook, other_codebook,
                   encoded_bit_string, tree_bits, file, dtree, node, pos, decoded,
                   output, exc>>

\* bytes_to_bit_string(encoded_bits)
UnpackBits ==
    /\ pc = "packed"
    /\ IF bytes_to_bit_string_raises(encoded_bits)
       THEN exc' = "IndexError" /\ pc' = "failed" /\ output' = output
       ELSE /\ output' = bytes_to_bit_string(encoded_bits)
            /\ pc' = "unpacked"
            /\ exc' = exc
    /\ UNCHANGED <<text, other, frequency, pushed, heap, tree, codebook, other_codebook,
                   encoded_bit_string, encoded_bits, tree_bits, file, dtree, node,
                   pos, decoded>>

NextBitPacker == PackBits \/ UnpackBits

SpecBitPacker == InitBitPacker /\ [][NextBitPacker]_vars

----------------------------------------------------------------------------
(* The tree codec: a built tree serialized and read back, and            *)
(* deserialize_tree_iterative on any tree block.                          *)

InitTreeCodec ==
    /\ \/ /\ pc = "serialize"
          /\ tree \in BuiltTrees(TreeAlphabet)
          /\ tree_bits = <<>>
       \/ /\ pc = "deserialize"
          /\ tree = None
          /\ tree_bits \in TreeStreams
    /\ text = <<>> /\ other = <<>> /\ frequency = <<>> /\ pushed = 0 /\ heap = <<>>
    /\ codebook = <<>> /\ other_codebook = <<>>
    /\ encoded_bit_string = <<>> /\ encoded_bits = <<>> /\ file = NoFile
    /\ dtree = None /\ node = None /\ pos = 0
    /\ decoded = <<>> /\ output = NoOutput /\ exc = ""

\* serialize_tree_iterative(tree)
Serialize ==
    /\ pc = "serialize"
    /\ tree_bits' = serialize_tree_iterative(tree)
    /\ pc' = "deserialize"
    /\ UNCHANGED <<text, other, frequency, pushed, heap, tree, codebook, other_codebook,
                   encoded_bit_string, encoded_bits, file, dtree, node, pos, decoded,
                   output, exc>>

NextTreeCodec == Serialize \/ Deserialize

SpecTreeCodec == InitTreeCodec /\ [][NextTreeCodec]_vars

----------------------------------------------------------------------------
(* Properties of the driver: encode_file, then decode_file (Spec). *)

\* decode_file has ended: it wrote its output, returned early, or raised
DecodeFileEnded == pc \in {"decoded", "decode_returned", "failed"}

\* the text holds at least two distinct characters
TwoSymbols == Cardinality(Chars(text)) >= 2

\* C1: for every text, the empty one and those of a single distinct
\* character included, decode_file on what encode_file wrote ends without
\* an error and writes exactly the text.
RoundTrip == DecodeFileEnded => (exc = "" /\ pc = "decoded" /\ output = text)

\* C1, the part the code keeps: a text of two or more distinct characters
\* is written back exactly.
RoundTripTwoSymbols == (DecodeFileEnded /\ TwoSymbols) => (exc = "" /\ output = text)

\* a is a prefix of b
IsPrefix(a, b) == Len(a) <= Len(b) /\ SubSeq(b, 1, Len(a)) = a

\* C6: in the code table built for a non-empty frequency table, every
\* symbol of the table has a code, every code is non-empty, and no symbol's
\* code is a prefix of another symbol's code.
PrefixCode ==
    pc = "codes_built" =>
        /\ DOMAIN codebook = Chars(text)
        /\ \A c \in DOMAIN codebook :
              /\ codebook[c] # <<>>
              /\ \A d \in DOMAIN codebook \ {c} : ~IsPrefix(codebook[c], codebook[d])

\* C6 witness: a code table of four symbols has been built
PrefixCodeWitness == pc = "codes_built" /\ Cardinality(DOMAIN codebook) = 4

\* the tree is a single leaf
IsLeaf(t) == t # None /\ t.char # NoChar /\ t.left = None /\ t.right = None

\* C8: for a text of n >= 1 repetitions of one character, the tree is a
\* single leaf, the character's code is "0", and the encoded bit string is
\* n '0' digits.
SingleSymbol ==
    (pc = "text_encoded" /\ Cardinality(Chars(text)) = 1) =>
        /\ IsLeaf(tree)
        /\ tree.char = text[1]
        /\ codebook = [c \in {text[1]} |-> <<0>>]
        /\ encoded_bit_string = Zeros(Len(text))

\* C8 witness: a text such as "aaa" has been encoded
SingleSymbolWitness ==
    /\ pc = "text_encoded"
    /\ Cardinality(Chars(text)) = 1
    /\ Len(text) >= 3
    /\ encoded_bit_string = Zeros(Len(text))

RECURSIVE LeafCount(_)
LeafCount(t) ==
    IF t = None THEN 0
    ELSE IF t.char # NoChar THEN 1
    ELSE LeafCount(t.left) + LeafCount(t.right)

RECURSIVE InternalCount(_)
InternalCount(t) ==
    IF t = None THEN 0
    ELSE IF t.char # NoChar THEN 0
    ELSE 1 + InternalCount(t.left) + InternalCount(t.right)

RECURSIVE LeafChars(_)
LeafChars(t) ==
    IF t = None THEN {}
    ELSE IF t.char # NoChar THEN {t.char}
    ELSE LeafChars(t.left) \cup LeafChars(t.right)

\* every leaf holds a symbol and no child, every internal node holds no
\* symbol and two children
RECURSIVE StrictBinary(_)
StrictBinary(t) ==
    /\ t # None
    /\ IF t.char # NoChar
       THEN t.left = None /\ t.right = None
       ELSE StrictBinary(t.left) /\ StrictBinary(t.right)

\* C10: for a frequency table of n >= 1 symbols the merge loop ends with
\* exactly one node on the heap, and the tree returned is a strict binary
\* tree with n leaves, one per symbol, and n - 1 internal nodes.
TreeShape ==
    (pc = "tree_built" /\ text # <<>>) =>
        /\ Len(heap) = 1
        /\ tree = heap[1]
        /\ StrictBinary(tree)
        /\ LeafCount(tree) = Cardinality(Chars(text))
        /\ LeafChars(tree) = Chars(text)
        /\ InternalCount(tree) = Cardinality(Chars(text)) - 1

\* C10 witness: "abracadabra" gives 5 leaves and 4 internal nodes
TreeShapeWitness ==
    /\ pc = "tree_built"
    /\ text = Abracadabra
    /\ LeafCount(tree) = 5
    /\ InternalCount(tree) = 4

----------------------------------------------------------------------------
(* Properties of the model stage on two texts (SpecPair). *)

\* position of the first occurrence of c in t
FirstPos(t, c) == CHOOSE i \in 1..Len(t) : t[i] = c /\ \A j \in 1..(i - 1) : t[j] # c

\* the characters of t and u occur for the first time in the same order
SameFirstOccurrences(t, u) ==
    \A c, d \in Chars(t) \cap Chars(u) :
        (FirstPos(t, c) < FirstPos(t, d)) <=> (FirstPos(u, c) < FirstPos(u, d))

\* C7: two texts with the same symbol counts yield the same code table.
SameCountsSameCodes == pc = "pair_encoded" => codebook = other_codebook

\* C7 as amended: two texts with the same symbol counts whose characters
\* occur for the first time in the same order yield the same code table.
SameOrderSameCodes ==
    (pc = "pair_encoded" /\ SameFirstOccurrences(text, other)) =>
        codebook = other_codebook

\* C7 witness: two different texts with equal counts and the same order of
\* first occurrences, in which two symbols tie, have been encoded
SameOrderWitness ==
    /\ pc = "pair_encoded"
    /\ text # other
    /\ SameFirstOccurrences(text, other)
    /\ \E c, d \in Chars(text) : c # d /\ Count(text, c) = Count(text, d)
    /\ codebook = other_codebook

----------------------------------------------------------------------------
(* Properties of decode (SpecDecode). *)

\* C2: when the bits are exhausted while the walk is below the root, decode
\* fails instead of returning what it decoded so far.
MidCodeDetected ==
    (pc \in {"decoded", "failed"} /\ pos = Len(encoded_bit_string) /\ node # dtree)
        => (pc = "failed" /\ exc # "")

----------------------------------------------------------------------------
(* Properties of load_encoded_file (SpecLoad). *)

\* C3: a container of at least 4 bytes whose header declares more tree
\* bytes than follow it is rejected.
OversizedHeaderRejected ==
    (pc # "load" /\ Len(file) >= 4 /\ UnpackUInt32(file) > Len(file) - 4)
        => (pc = "failed" /\ exc # "")

----------------------------------------------------------------------------
(* Properties of the bit packer (SpecBitPacker). *)

\* C5: bytes_to_bit_string(bit_string_to_bytes(S)) is S, for every bit
\* string S.
PackRoundTrip ==
    pc \in {"unpacked", "failed"} => (exc = "" /\ output = encoded_bit_string)

\* C5 witness: a bit string longer than one byte, padded, went through
\* both ways
PackRoundTripWitness ==
    /\ pc = "unpacked"
    /\ Len(encoded_bit_string) > 8
    /\ Len(encoded_bit_string) % 8 # 0
    /\ output = encoded_bit_string

----------------------------------------------------------------------------
(* Properties of the tree codec (SpecTreeCodec). *)

\* deserialize_tree_iterative has ended
DeserializeEnded == pc \in {"unpack", "decode_returned", "failed"}

\* C4: a tree built by build_huffman_tree, serialized and deserialized,
\* gives the same code table as the tree itself.
TreeRoundTrip ==
    (DeserializeEnded /\ tree # None) =>
        /\ exc = ""
        /\ dtree # None
        /\ build_codes_iterative(dtree) = build_codes_iterative(tree)

\* C4 witness: a tree of four leaves went through both ways
TreeRoundTripWitness ==
    /\ DeserializeEnded
    /\ tree # None
    /\ LeafCount(tree) = 4
    /\ LeafCount(dtree) = 4

\* the bit string ends behind a leaf marker with fewer than 8 bits left
RECURSIVE EndsMidSymbol(_)
EndsMidSymbol(s) ==
    IF s = <<>> THEN FALSE
    ELSE IF Head(s) = 1
    THEN Len(s) < 9 \/ EndsMidSymbol(SubSeq(s, 10, Len(s)))
    ELSE EndsMidSymbol(Tail(s))

\* C9: on a tree block whose bits end inside a leaf's symbol,
\* deserialize_tree_iterative raises and returns no tree.
TruncatedTreeRejected ==
    (DeserializeEnded /\ EndsMidSymbol(bytes_to_bit_string(tree_bits))) =>
        (pc = "failed" /\ exc # "" /\ dtree = None)

\* C9 witness: a block cut inside its second leaf was rejected
TruncatedTreeWitness ==
    /\ pc = "failed"
    /\ Len(bytes_to_bit_string(tree_bits)) > 10
    /\ EndsMidSymbol(bytes_to_bit_string(tree_bits))

====
